---- MODULE Spec2Model ----
(***************************************************************************)
(* A model of Source/PythonScript/conversion.py: the class Conversion,     *)
(* whose class attributes (format_type, y16CameraFlag, y8_frame) are the   *)
(* session state and whose class/static methods are the operations.        *)
(*                                                                         *)
(* An ndarray is modelled by its shape and its elements in row-major       *)
(* order.  A raw frame carries the memory layout it was delivered in:      *)
(*   "Y12P"   shape (rows, cols), tobytes() is the packed 12-bit stream,   *)
(*            3 bytes for every 2 samples;                                 *)
(*   "Y16"    shape (rows, cols), elements are 16-bit samples;             *)
(*   "YUV422" shape (rows, cols, 2), 8-bit interleaved luma/chroma.        *)
(* A call either returns a value or raises; both are recorded in `result`. *)
(***************************************************************************)
EXTENDS Integers, Sequences, FiniteSets, TLC

VARIABLES format_type, y16CameraFlag, y8_frame, y8_rebound, frame, call, result

vars == <<format_type, y16CameraFlag, y8_frame, y8_rebound, frame, call, result>>

(***************************************************************************)
(* Bounds of the model.                                                    *)
(***************************************************************************)
MaxRows == 2
MaxCols == 2
Y12MaxRows == 2
Y12MaxCols == 4

(***************************************************************************)
(* Class constants.                                                        *)
(***************************************************************************)
OTHER_Y16CAMERAS == 0
SEE3CAM_20CUG == 1
SEE3CAM_CU40 == 2
V4L2_PIX_FMT_Y16 == "Y16 "
V4L2_PIX_FMT_Y12 == "Y12 "
\* format_type = 0 before the first init_conversion: an int, equal to no tag.
FORMAT_TYPE_UNSET == "0"
\* y16CameraFlag = -1 before a Y16 session resolved a camera.
Y16_FLAG_UNSET == 0 - 1

\* The tags the acquisition layer may hand over, one of them unregistered.
FormatTags == {"UYVY", "YUY2", V4L2_PIX_FMT_Y12, V4L2_PIX_FMT_Y16, "XYZZ"}

(***************************************************************************)
(* Integer and sequence helpers (Python / numpy primitives).               *)
(***************************************************************************)
RECURSIVE BitAnd(_, _)
BitAnd(a, b) ==
    IF a = 0 \/ b = 0 THEN 0
    ELSE (a % 2) * (b % 2) + 2 * BitAnd(a \div 2, b \div 2)

ShiftR(a, n) == a \div (2 ^ n)
ShiftL(a, n) == a * (2 ^ n)

Zeros(n) == [k \in 1..n |-> 0]

\* seq[lo:hi] with Python's clipping of the bounds (0 <= lo <= hi).
Slice(s, lo, hi) ==
    LET h == IF hi > Len(s) THEN Len(s) ELSE hi
    IN  IF lo >= h THEN <<>> ELSE [k \in 1..(h - lo) |-> s[lo + k]]

\* str.find: the lowest 0-based index where sub occurs in s, else -1.
Find(s, sub) ==
    LET hits == {p \in 0..(Len(s) - Len(sub)) :
                    \A k \in 1..Len(sub) : s[p + k] = sub[k]}
    IN  IF hits = {} THEN 0 - 1
        ELSE CHOOSE p \in hits : \A q \in hits : p <= q

\* Round half to even of num/den (cvRound), num >= 0, den > 0.
RoundHalfEven(num, den) ==
    LET q == num \div den
        r == num % den
    IN  IF 2 * r > den \/ (2 * r = den /\ q % 2 = 1) THEN q + 1 ELSE q

(***************************************************************************)
(* Values: ndarrays, raw frames, results of a call.                        *)
(***************************************************************************)
NoArr == [rows |-> 0, cols |-> 0, data |-> <<>>]

\* y8_frame = None
NoneFrame == [alloc |-> FALSE, rows |-> 0, cols |-> 0, data |-> <<>>]

\* np.zeros(shape=(height, width), dtype=np.uint8)
NpZeros(height, width) ==
    [alloc |-> TRUE, rows |-> height, cols |-> width, data |-> Zeros(height * width)]

NoFrame == [fmt |-> "none", rows |-> 0, cols |-> 0, data |-> <<>>]

\* What a call gave back.  kind is "ndarray", "tuple", "None" or the name of
\* the exception raised.  via names the cv2 colour conversion that was applied
\* to data ("" when data is the array itself).  obj tells which object came
\* back: "y8_frame" for the session's reusable buffer, "new" for an array the
\* call allocated, "" when no array came back.
Returned(kind, via, arr, ir, obj) ==
    [kind |-> kind, via |-> via, rows |-> arr.rows, cols |-> arr.cols,
     data |-> arr.data, ir |-> ir, obj |-> obj]

Raised(exc) == Returned(exc, "", NoArr, NoArr, "")

NoResult == Returned("none", "", NoArr, NoArr, "")

Exceptions == {"TypeError", "ValueError", "IndexError", "AttributeError", "cv2.error"}

\* frame.tobytes(): the element bytes in memory order (16-bit little endian).
ToBytes(fr) ==
    IF fr.fmt = "Y16"
    THEN [k \in 1..(2 * Len(fr.data)) |->
            IF k % 2 = 1 THEN fr.data[(k + 1) \div 2] % 256
            ELSE fr.data[k \div 2] \div 256]
    ELSE fr.data

\* len(frame.shape)
ShapeLen(fr) == IF fr.fmt = "YUV422" THEN 3 ELSE 2

(***************************************************************************)
(* cv2 primitives.                                                         *)
(***************************************************************************)
\* A variant that truncates the scaled value where cv2 rounds it.
ScaleAbsTrunc(x, num, den) ==
    IF (x \div 256) * num >= den THEN 255
    ELSE LET r == (x * num) \div den IN IF r > 255 THEN 255 ELSE r

\* One element of cv2.convertScaleAbs(src, alpha) with alpha = num/den:
\* saturate_cast<uchar>(cvRound(|x * alpha|)).  The product is formed in
\* float32 by OpenCV; for the three factors used here and every 16-bit x the
\* float32 result rounds to the same integer as the exact quotient.  The first
\* branch saturates products of 256 and more without forming them.
ScaleAbs(x, num, den) ==
    IF (x \div 256) * num >= den THEN 255
    ELSE LET r == RoundHalfEven(x * num, den) IN IF r > 255 THEN 255 ELSE r

\* cv2.convertScaleAbs(frame, num/den) on a single-channel frame.
ConvertScaleAbs(fr, num, den) ==
    [rows |-> fr.rows, cols |-> fr.cols,
     data |-> [k \in 1..Len(fr.data) |-> ScaleAbs(fr.data[k], num, den)]]

\* cv2.cvtColor(frame, COLOR_YUV2BGR_UYVY / _YUY2): needs an 8-bit 2-channel
\* source, else cv2.error.  The colour transform itself is left to cv2: the
\* result names the conversion and the data it was applied to.
CvtColorYUV(fr, code) ==
    IF fr.fmt = "YUV422" THEN Returned("ndarray", code, fr, NoArr, "new")
    ELSE Raised("cv2.error")

\* ndarray has no method clone (cv2 hands back numpy arrays; the numpy
\* spelling is copy): the attribute lookup raises AttributeError.
NdarrayClone(arr) == [exc |-> "AttributeError", val |-> arr]

(***************************************************************************)
(* convert_y12_to_y8                                                       *)
(***************************************************************************)
\* np.delete(a, col, 1) on a flat stream viewed as rows of 3 bytes: the bytes
\* of column col (0-based) are removed, the others keep their order.
RECURSIVE NpDelete(_, _)
NpDelete(bytes, col) ==
    IF Len(bytes) < 3 THEN <<>>
    ELSE LET t == SubSeq(bytes, 1, 3)
         IN  SelectSeq([k \in 1..3 |-> IF k - 1 = col THEN 0 - 1 ELSE t[k]],
                       LAMBDA b : b >= 0)
             \o NpDelete(SubSeq(bytes, 4, Len(bytes)), col)

\* A variant that deletes column 1, the middle byte of each triplet.
FilteredBytesDropMiddle(raw_bytes) == NpDelete(raw_bytes, 1)

\* Lines 82-85: frombuffer, reshape(-1, 3), delete(.., 2, 1), reshape(-1).
FilteredBytes(raw_bytes) == NpDelete(raw_bytes, 2)

\* cls.y8_frame[i,] = src: row i of buf overwritten, a one-element src being
\* broadcast over the row.
AssignRow(buf, i, src) ==
    [buf EXCEPT !.data =
        [k \in 1..Len(@) |->
            IF (k - 1) \div buf.cols = i
            THEN (IF Len(src) = 1 THEN src[1] ELSE src[k - i * buf.cols])
            ELSE @[k]]]

\* A variant that leaves the read offset m where it is after each row.
RECURSIVE Y12RowLoopNoAdvance(_, _, _, _, _, _)
Y12RowLoopNoAdvance(buf, filtered_bytes, i, row, column, m) ==
    IF i >= row THEN [exc |-> "", buf |-> buf]
    ELSE IF ~buf.alloc THEN [exc |-> "TypeError", buf |-> buf]
    ELSE IF i >= buf.rows THEN [exc |-> "IndexError", buf |-> buf]
    ELSE LET src == Slice(filtered_bytes, m, m + column)
         IN  IF Len(src) # buf.cols /\ Len(src) # 1
             THEN [exc |-> "ValueError", buf |-> buf]
             ELSE Y12RowLoopNoAdvance(AssignRow(buf, i, src), filtered_bytes,
                                      i + 1, row, column, m)

\* Lines 86-89: the row loop, from row i on with m bytes consumed.  The loop
\* stops at the first statement that raises; rows written before stay written.
RECURSIVE Y12RowLoop(_, _, _, _, _, _)
Y12RowLoop(buf, filtered_bytes, i, row, column, m) ==
    IF i >= row THEN [exc |-> "", buf |-> buf]
    ELSE IF ~buf.alloc THEN [exc |-> "TypeError", buf |-> buf]
    ELSE IF i >= buf.rows THEN [exc |-> "IndexError", buf |-> buf]
    ELSE LET src == Slice(filtered_bytes, m, m + column)
         IN  IF Len(src) # buf.cols /\ Len(src) # 1
             THEN [exc |-> "ValueError", buf |-> buf]
             ELSE Y12RowLoop(AssignRow(buf, i, src), filtered_bytes,
                             i + 1, row, column, m + column)

\* A variant that allocates the output to the frame's size on every call.
Y12ToY8Realloc(buf, fr) ==
    LET out == Y12RowLoop(NpZeros(fr.rows, fr.cols), FilteredBytes(ToBytes(fr)),
                          0, fr.rows, fr.cols, 0)
    IN  [res |-> Returned("ndarray", "", out.buf, NoArr, "y8_frame"),
         buf |-> out.buf, rebound |-> TRUE]

\* convert_y12_to_y8(frame) with cls.y8_frame = buf: the value returned or
\* exception raised, the buffer afterwards, and whether cls.y8_frame was
\* bound to another array (it never is: the rows are written in place).
Y12ToY8(buf, fr) ==
    IF ShapeLen(fr) # 2
    THEN [res |-> Raised("ValueError"), buf |-> buf, rebound |-> FALSE]
    ELSE IF Len(ToBytes(fr)) % 3 # 0
    THEN [res |-> Raised("ValueError"), buf |-> buf, rebound |-> FALSE]
    ELSE LET out == Y12RowLoop(buf, FilteredBytes(ToBytes(fr)), 0, fr.rows, fr.cols, 0)
         IN  IF out.exc # ""
             THEN [res |-> Raised(out.exc), buf |-> out.buf, rebound |-> FALSE]
             ELSE [res |-> Returned("ndarray", "", out.buf, NoArr, "y8_frame"),
                   buf |-> out.buf, rebound |-> FALSE]

(***************************************************************************)
(* convert_y12_for_still                                                   *)
(***************************************************************************)
\* A variant that gives the two samples each other's low nibble of b2.
StillStepSwapped(buf, raw_bytes, base, m) ==
    IF m + 2 >= Len(raw_bytes) \/ base + 3 >= Len(buf)
    THEN [exc |-> "IndexError", buf |-> buf]
    ELSE LET b0 == raw_bytes[m + 1]
             b1 == raw_bytes[m + 2]
             b2 == raw_bytes[m + 3]
         IN  [exc |-> "",
              buf |-> [buf EXCEPT
                ![base + 2] = ShiftR(BitAnd(240, b0), 4),
                ![base + 1] = ShiftL(BitAnd(b0, 15), 4) + ShiftR(BitAnd(b2, 240), 4),
                ![base + 4] = ShiftR(BitAnd(240, b1), 4),
                ![base + 3] = ShiftL(BitAnd(b1, 15), 4) + BitAnd(b2, 15)]]

\* Lines 128-138: one pass of the inner loop body, writing 4 bytes at
\* base = stride * j + i from the 3 bytes at raw_bytes[m..m+2].
StillStep(buf, raw_bytes, base, m) ==
    IF m + 2 >= Len(raw_bytes) \/ base + 3 >= Len(buf)
    THEN [exc |-> "IndexError", buf |-> buf]
    ELSE LET b0 == raw_bytes[m + 1]
             b1 == raw_bytes[m + 2]
             b2 == raw_bytes[m + 3]
         IN  [exc |-> "",
              buf |-> [buf EXCEPT
                ![base + 2] = ShiftR(BitAnd(240, b0), 4),
                ![base + 1] = ShiftL(BitAnd(b0, 15), 4) + BitAnd(b2, 15),
                ![base + 4] = ShiftR(BitAnd(240, b1), 4),
                ![base + 3] = ShiftL(BitAnd(b1, 15), 4) + ShiftR(BitAnd(b2, 240), 4)]]

\* Lines 126-139: the two loops, from (j, i) on with m bytes consumed.
RECURSIVE StillLoop(_, _, _, _, _, _, _)
StillLoop(buf, raw_bytes, j, i, row, stride, m) ==
    IF j >= row THEN [exc |-> "", buf |-> buf]
    ELSE IF i >= stride THEN StillLoop(buf, raw_bytes, j + 1, 0, row, stride, m)
    ELSE LET step == StillStep(buf, raw_bytes, stride * j + i, m)
         IN  IF step.exc # "" THEN step
             ELSE StillLoop(step.buf, raw_bytes, j, i + 4, row, stride, m + 3)

\* convert_y12_for_still(frame): a fresh byte buffer, or the exception.
Y12ForStill(fr) ==
    IF ShapeLen(fr) # 2 THEN Raised("ValueError")
    ELSE LET out == StillLoop(Zeros(fr.rows * fr.cols * 2), ToBytes(fr),
                              0, 0, fr.rows, fr.cols * 2, 0)
         IN  IF out.exc # "" THEN Raised(out.exc)
             ELSE Returned("ndarray", "",
                           [rows |-> 1, cols |-> Len(out.buf), data |-> out.buf],
                           NoArr, "new")

(***************************************************************************)
(* convert_RGIR_to_RGGB and convert_y16_to_rgb                             *)
(***************************************************************************)
\* Lines 160-163 on arrays of even dimensions: position (i+1, j) of every
\* 2x2 block takes the value at (i, j+1).  k is the 1-based row-major index.
SubstituteGreen(arr) ==
    [arr EXCEPT !.data =
        [k \in 1..Len(@) |->
            LET i == (k - 1) \div arr.cols
                j == (k - 1) % arr.cols
            IN  IF i % 2 = 1 /\ j % 2 = 0 THEN @[k - arr.cols + 1] ELSE @[k]]]

\* Lines 158-163: ir_frame[i/2, j/2] = bayer_RGIR[i+1, j].
InfraredPlane(arr) ==
    LET r == arr.rows \div 2
        c == arr.cols \div 2
    IN  [rows |-> r, cols |-> c,
         data |-> [k \in 1..(r * c) |->
                    arr.data[(2 * ((k - 1) \div c) + 1) * arr.cols + 2 * ((k - 1) % c) + 1]]]

\* convert_RGIR_to_RGGB(frame).  After the scaling, line 156 asks the scaled
\* ndarray for clone.  Past that line: the reshape of line 158 raises
\* ValueError when int(column*row/4) differs from int(row/2)*int(column/2),
\* and with an odd row or column count the loop indexes one past the edge.
RGIRToRGGB(fr) ==
    IF ShapeLen(fr) # 2 THEN Raised("ValueError")
    ELSE LET bayer_RGIR == ConvertScaleAbs(fr, 249023, 1000000)
             cloned == NdarrayClone(bayer_RGIR)
         IN  IF cloned.exc # "" THEN Raised(cloned.exc)
             ELSE IF (fr.cols * fr.rows) \div 4 # (fr.rows \div 2) * (fr.cols \div 2)
             THEN Raised("ValueError")
             ELSE IF fr.rows % 2 = 1 \/ fr.cols % 2 = 1 THEN Raised("IndexError")
             ELSE Returned("tuple", "COLOR_BayerRG2BGR", SubstituteGreen(cloned.val),
                           InfraredPlane(bayer_RGIR), "new")

\* convert_y16_to_rgb(frame) with cls.y16CameraFlag = flag.  No branch is
\* taken for a flag outside the three variants: the method falls off its end.
Y16ToRgb(flag, fr) ==
    IF flag = SEE3CAM_20CUG
    THEN Returned("ndarray", "", ConvertScaleAbs(fr, 255, 1024), NoArr, "new")
    ELSE IF flag = SEE3CAM_CU40 THEN RGIRToRGGB(fr)
    ELSE IF flag = OTHER_Y16CAMERAS
    THEN Returned("ndarray", "", ConvertScaleAbs(fr, 6226, 100000), NoArr, "new")
    ELSE Returned("None", "", NoArr, NoArr, "")

(***************************************************************************)
(* convert_frame                                                           *)
(***************************************************************************)
\* convert_frame(frame, frame_format): the value returned or exception
\* raised, and the reusable buffer afterwards.  The fallback of the lookup
\* is a lambda of no parameters, called with one argument.
ConvertFrame(ftype, flag, buf, fr, frame_format) ==
    IF ftype = "UYVY"
    THEN [res |-> CvtColorYUV(fr, "COLOR_YUV2BGR_UYVY"), buf |-> buf, rebound |-> FALSE]
    ELSE IF ftype = "YUY2"
    THEN [res |-> CvtColorYUV(fr, "COLOR_YUV2BGR_YUY2"), buf |-> buf, rebound |-> FALSE]
    ELSE IF frame_format = "Y12 " THEN Y12ToY8(buf, fr)
    ELSE IF frame_format = "Y16 "
    THEN [res |-> Y16ToRgb(flag, fr), buf |-> buf, rebound |-> FALSE]
    ELSE [res |-> Raised("TypeError"), buf |-> buf, rebound |-> FALSE]

(***************************************************************************)
(* init_conversion                                                         *)
(***************************************************************************)
\* Device display names, as character sequences.
NAME_20CUG == <<"S", "e", "e", "3", "C", "A", "M", "_", "2", "0", "C", "U", "G">>
NAME_CU40 == <<"S", "e", "e", "3", "C", "A", "M", "_", "C", "U", "4", "0">>

DeviceNames ==
    { NAME_20CUG,
      <<"e", "-", "c", "o", "n", " ">> \o NAME_CU40,
      <<"S", "e", "e", "3", "C", "A", "M", "_", "C", "U", "3", "0">>,
      NAME_CU40 \o <<"/">> \o NAME_20CUG }

\* Lines 35-41: the flag after init_conversion, given the flag before.
CameraFlag(old, tag, device_name) ==
    IF tag = V4L2_PIX_FMT_Y16
    THEN IF Find(device_name, NAME_20CUG) > 0 - 1 THEN SEE3CAM_20CUG
         ELSE IF Find(device_name, NAME_CU40) > 0 - 1 THEN SEE3CAM_CU40
         ELSE OTHER_Y16CAMERAS
    ELSE old

(***************************************************************************)
(* The frames the acquisition layer delivers.                              *)
(***************************************************************************)
\* The packed stream 0xAB, 0xCD, 0xEF repeating, n bytes long.
TestPattern(n) == [k \in 1..n |-> <<171, 205, 239>>[((k - 1) % 3) + 1]]

\* Packed 12-bit frames: rows * cols samples in rows * cols * 3 / 2 bytes.
Y12Frames(maxRows, maxCols) ==
    { [fmt |-> "Y12P", rows |-> r, cols |-> c, data |-> TestPattern((r * c * 3) \div 2)] :
        <<r, c>> \in {d \in (1..maxRows) \X (1..maxCols) : (d[1] * d[2]) % 2 = 0} }

\* 16-bit frames holding the ramp 0, 341, 682, 1023: one 2x2 Bayer block and
\* the grids with an odd row or column count below it.  The 16-bit routines
\* read no session dimensions.
Y16Frames ==
    { [fmt |-> "Y16", rows |-> r, cols |-> c,
       data |-> [k \in 1..(r * c) |-> ((k - 1) * 341) % (2 ^ 16)]] :
        <<r, c>> \in (1..2) \X (1..2) }

\* One 4:2:2 frame of two pixels.
YUVFrames == { [fmt |-> "YUV422", rows |-> 1, cols |-> 2, data |-> <<128, 16, 128, 235>>] }

SessionFrames == Y12Frames(MaxRows, MaxCols) \cup Y16Frames \cup YUVFrames

\* Byte values covering the nibble patterns of a packed triplet.
FocusBytes == {0, 15, 240, 255, 171, 205, 239, 90}

\* Packed frames in which one triplet takes every combination of FocusBytes.
RichY12Frames ==
    { [f EXCEPT !.data = [k \in 1..Len(@) |->
            IF (k - 1) \div 3 = x[1] - 1 THEN x[2][((k - 1) % 3) + 1] ELSE @[k]]] :
        <<f, x>> \in { y \in Y12Frames(Y12MaxRows, Y12MaxCols) \X
                             ((1..((Y12MaxRows * Y12MaxCols) \div 2))
                                 \X (FocusBytes \X FocusBytes \X FocusBytes)) :
                         y[2][1] <= Len(y[1].data) \div 3 } }

\* 16-bit frames of two neighbouring sample values, over the whole range.
RichY16Frames ==
    { [fmt |-> "Y16", rows |-> 1, cols |-> 2, data |-> <<x, x + 1>>] : x \in 0..(2 ^ 16 - 2) }

\* The caller passes a frame together with its own format tag; a tag with no
\* routine can come with any frame.
TagFits(fr, tag) ==
    /\ tag = V4L2_PIX_FMT_Y12 => fr.fmt = "Y12P"
    /\ tag = V4L2_PIX_FMT_Y16 => fr.fmt = "Y16"
    /\ tag \in {"UYVY", "YUY2"} => fr.fmt = "YUV422"

(***************************************************************************)
(* State machine.  call holds the operation last called and its arguments  *)
(* other than the frame, frame the frame it was given, result what it gave *)
(* back; y8_rebound tells whether it bound cls.y8_frame to a new array.    *)
(***************************************************************************)
Called(op, tag) == [op |-> op, tag |-> tag, device |-> <<>>, width |-> 0, height |-> 0]

\* The class as defined: lines 17-20.
Init ==
    /\ format_type = FORMAT_TYPE_UNSET
    /\ y16CameraFlag = Y16_FLAG_UNSET
    /\ y8_frame = NoneFrame
    /\ y8_rebound = FALSE
    /\ frame = NoFrame
    /\ call = Called("none", "")
    /\ result = NoResult

\* init_conversion((tag, width, height, fps), device_name); fps is not used.
init_conversion ==
    /\ \E tag \in FormatTags, width \in 1..MaxCols, height \in 1..MaxRows,
          device_name \in DeviceNames :
        /\ format_type' = tag
        /\ y16CameraFlag' = CameraFlag(y16CameraFlag, tag, device_name)
        /\ y8_frame' = NpZeros(height, width)
        /\ call' = [op |-> "init_conversion", tag |-> tag, device |-> device_name,
                    width |-> width, height |-> height]
    /\ y8_rebound' = TRUE
    /\ frame' = NoFrame
    /\ result' = Returned("None", "", NoArr, NoArr, "")

convert_frame(Frames) ==
    \E fr \in Frames, frame_format \in FormatTags :
        /\ TagFits(fr, frame_format)
        /\ LET out == ConvertFrame(format_type, y16CameraFlag, y8_frame, fr, frame_format)
           IN  /\ result' = out.res
               /\ y8_frame' = out.buf
               /\ y8_rebound' = out.rebound
        /\ frame' = fr
        /\ call' = Called("convert_frame", frame_format)
        /\ UNCHANGED <<format_type, y16CameraFlag>>

convert_y12_to_y8(Frames) ==
    \E fr \in Frames :
        /\ fr.fmt = "Y12P"
        /\ LET out == Y12ToY8(y8_frame, fr)
           IN  /\ result' = out.res
               /\ y8_frame' = out.buf
               /\ y8_rebound' = out.rebound
        /\ frame' = fr
        /\ call' = Called("convert_y12_to_y8", "")
        /\ UNCHANGED <<format_type, y16CameraFlag>>

convert_y16_to_rgb(Frames) ==
    \E fr \in Frames :
        /\ fr.fmt = "Y16"
        /\ result' = Y16ToRgb(y16CameraFlag, fr)
        /\ frame' = fr
        /\ call' = Called("convert_y16_to_rgb", "")
        /\ y8_rebound' = FALSE
        /\ UNCHANGED <<format_type, y16CameraFlag, y8_frame>>

convert_y12_for_still(Frames) ==
    \E fr \in Frames :
        /\ fr.fmt = "Y12P"
        /\ result' = Y12ForStill(fr)
        /\ frame' = fr
        /\ call' = Called("convert_y12_for_still", "")
        /\ y8_rebound' = FALSE
        /\ UNCHANGED <<format_type, y16CameraFlag, y8_frame>>

convert_RGIR_to_RGGB(Frames) ==
    \E fr \in Frames :
        /\ fr.fmt = "Y16"
        /\ result' = RGIRToRGGB(fr)
        /\ frame' = fr
        /\ call' = Called("convert_RGIR_to_RGGB", "")
        /\ y8_rebound' = FALSE
        /\ UNCHANGED <<format_type, y16CameraFlag, y8_frame>>

Next ==
    \/ init_conversion
    \/ convert_frame(SessionFrames)
    \/ convert_y12_to_y8(SessionFrames)
    \/ convert_y16_to_rgb(SessionFrames)
    \/ convert_y12_for_still(SessionFrames)
    \/ convert_RGIR_to_RGGB(SessionFrames)

Spec == Init /\ [][Next]_vars

(***************************************************************************)
(* The Y12 routines on a frame of the session's own dimensions: the state  *)
(* right after init_conversion(("Y12 ", cols, rows, fps), name) on the     *)
(* class as defined, with the frame about to be converted.                 *)
(***************************************************************************)
SessionStart(tag, device_name, fr) ==
    /\ format_type = tag
    /\ y16CameraFlag = CameraFlag(Y16_FLAG_UNSET, tag, device_name)
    /\ y8_frame = NpZeros(fr.rows, fr.cols)
    /\ y8_rebound = TRUE
    /\ frame = fr
    /\ call = [op |-> "init_conversion", tag |-> tag, device |-> device_name,
               width |-> fr.cols, height |-> fr.rows]
    /\ result = Returned("None", "", NoArr, NoArr, "")

InitY12 == \E fr \in RichY12Frames : SessionStart(V4L2_PIX_FMT_Y12, NAME_20CUG, fr)

NextY12 ==
    \/ convert_y12_to_y8({frame})
    \/ convert_y12_for_still({frame})
    \/ convert_frame({frame})

SpecY12 == InitY12 /\ [][NextY12]_vars

(***************************************************************************)
(* The Y16 routine over the whole 16-bit sample range: the state right     *)
(* after init_conversion(("Y16 ", 2, 1, fps), name) on the class as        *)
(* defined.                                                                *)
(***************************************************************************)
InitY16 ==
    \E fr \in RichY16Frames, device_name \in DeviceNames :
        SessionStart(V4L2_PIX_FMT_Y16, device_name, fr)

NextY16 ==
    \/ convert_y16_to_rgb({frame})
    \/ convert_frame({frame})

SpecY16 == InitY16 /\ [][NextY16]_vars

(***************************************************************************)
(* Vocabulary of the properties.                                           *)
(***************************************************************************)
\* The k-th 12-bit sample (1-based, row-major) of a packed frame: the two
\* samples of a triplet (b0, b1, b2) are b0*16 + (b2 & 0x0F) and
\* b1*16 + (b2 >> 4).
SampleOf(fr, k) ==
    LET t == 3 * ((k - 1) \div 2)
    IN  IF k % 2 = 1 THEN fr.data[t + 1] * 16 + (fr.data[t + 3] % 16)
        ELSE fr.data[t + 2] * 16 + (fr.data[t + 3] \div 16)

\* Bytes a and b (0-based positions in the triplet) of every triplet, in order.
TripletBytes(bytes, a, b) ==
    [k \in 1..(2 * (Len(bytes) \div 3)) |->
        bytes[3 * ((k - 1) \div 2) + (IF k % 2 = 1 THEN a ELSE b) + 1]]

RegisteredTags == {"UYVY", "YUY2", V4L2_PIX_FMT_Y12, V4L2_PIX_FMT_Y16}

\* The call went to the Y16 routine, directly or through the dispatcher's tag.
Y16Invoked ==
    \/ call.op = "convert_y16_to_rgb"
    \/ call.op = "convert_frame" /\ call.tag = V4L2_PIX_FMT_Y16

\* The session's (rows, columns) are those of the buffer init_conversion
\* allocated; the class keeps width and height nowhere else.
FrameMatchesSession(fr) ==
    y8_frame.alloc /\ fr.rows = y8_frame.rows /\ fr.cols = y8_frame.cols

(***************************************************************************)
(* C1: convert_frame with a tag outside {UYVY, YUY2, Y12, Y16} is reported *)
(* to the caller as an error in every session state: no converted or       *)
(* zeroed buffer comes back and nothing is converted.                      *)
(***************************************************************************)
C1_UnknownTagIsRejected ==
    (call.op = "convert_frame" /\ call.tag \notin RegisteredTags)
        => result.kind \in Exceptions

(***************************************************************************)
(* C2: for a packed Y12 frame with an even column count and the session's  *)
(* dimensions, convert_y12_to_y8 returns a rows x cols grid whose k-th     *)
(* value is the high byte (sample >> 4) of the k-th 12-bit sample.         *)
(***************************************************************************)
C2_HighByteOfEachSample ==
    (/\ call.op = "convert_y12_to_y8"
     /\ frame.fmt = "Y12P"
     /\ frame.cols % 2 = 0
     /\ FrameMatchesSession(frame))
        => /\ result.kind = "ndarray"
           /\ result.rows = frame.rows
           /\ result.cols = frame.cols
           /\ Len(result.data) = frame.rows * frame.cols
           /\ \A k \in 1..(frame.rows * frame.cols) :
                result.data[k] = SampleOf(frame, k) \div 16

C2_Witness ==
    /\ call.op = "convert_y12_to_y8"
    /\ frame.rows = 2 /\ frame.cols = 4
    /\ FrameMatchesSession(frame)
    /\ result.kind = "ndarray"
    /\ \E k \in 1..8 : SampleOf(frame, k) % 16 # 0 /\ result.data[k] = 171

(***************************************************************************)
(* C3: for a packed frame with an even column count convert_y12_for_still  *)
(* returns rows*cols*2 bytes; triplet k = (b0, b1, b2) gives               *)
(* out[4k+1] = b0 >> 4, out[4k] = ((b0 & 0x0F) << 4) + (b2 & 0x0F),        *)
(* out[4k+3] = b1 >> 4, out[4k+2] = ((b1 & 0x0F) << 4) + (b2 >> 4), and    *)
(* reading each byte pair back as a little-endian 16-bit value gives the   *)
(* original 12-bit samples, so distinct sample grids give distinct output. *)
(***************************************************************************)
C3_StillIsExactlyDecodable ==
    (/\ call.op = "convert_y12_for_still"
     /\ frame.fmt = "Y12P"
     /\ frame.cols % 2 = 0)
        => /\ result.kind = "ndarray"
           /\ Len(result.data) = frame.rows * frame.cols * 2
           /\ \A t \in 0..((frame.rows * frame.cols) \div 2 - 1) :
                LET b0 == frame.data[3 * t + 1]
                    b1 == frame.data[3 * t + 2]
                    b2 == frame.data[3 * t + 3]
                    out == [n \in 0..3 |-> result.data[4 * t + n + 1]]
                IN  /\ out[1] = b0 \div 16
                    /\ out[0] = (b0 % 16) * 16 + (b2 % 16)
                    /\ out[3] = b1 \div 16
                    /\ out[2] = (b1 % 16) * 16 + (b2 \div 16)
                    /\ out[1] * 256 + out[0] = SampleOf(frame, 2 * t + 1)
                    /\ out[3] * 256 + out[2] = SampleOf(frame, 2 * t + 2)

C3_Witness ==
    /\ call.op = "convert_y12_for_still"
    /\ frame.rows = 2 /\ frame.cols = 4
    /\ result.kind = "ndarray"
    /\ Len(result.data) = 16
    /\ \E t \in 0..3 : /\ frame.data[3 * t + 3] = 90
                       /\ result.data[4 * t + 1] % 16 = 10
                       /\ result.data[4 * t + 3] % 16 = 5

(***************************************************************************)
(* C4: the Y16 routine invoked while no init_conversion has resolved a     *)
(* camera variant (y16CameraFlag still unset) ends in an error; it never   *)
(* hands back an undefined or empty result.                                *)
(***************************************************************************)
C4_UnresolvedVariantIsAnError ==
    (Y16Invoked /\ y16CameraFlag = Y16_FLAG_UNSET) => result.kind \in Exceptions

(***************************************************************************)
(* C5: a frame whose row or column count differs from the session's makes  *)
(* convert_y12_to_y8 fail without writing to the reusable buffer, and      *)
(* convert_RGIR_to_RGGB fails on a grid with an odd row or column count.   *)
(***************************************************************************)
C5_MismatchedDimensionsRejected ==
    /\ [][(/\ call'.op = "convert_y12_to_y8"
           /\ y8_frame.alloc
           /\ (frame'.rows # y8_frame.rows \/ frame'.cols # y8_frame.cols))
              => (result'.kind \in Exceptions /\ y8_frame' = y8_frame)]_vars
    /\ []((/\ call.op = "convert_RGIR_to_RGGB"
           /\ (frame.rows % 2 = 1 \/ frame.cols % 2 = 1))
              => result.kind \in Exceptions)

(***************************************************************************)
(* C6: convert_frame picks the routine from the tag passed with the frame, *)
(* whatever format the session was initialised with: tag Y12 gives what    *)
(* the unpack routine gives, tag Y16 what the 16-bit routine gives, tags   *)
(* UYVY and YUY2 the matching YUV-to-BGR conversion.                       *)
(***************************************************************************)
C6_DispatchByFrameTag ==
    [][call'.op = "convert_frame" =>
        /\ call'.tag = V4L2_PIX_FMT_Y12 =>
              result' = Y12ToY8(y8_frame, frame').res
        /\ call'.tag = V4L2_PIX_FMT_Y16 =>
              result' = Y16ToRgb(y16CameraFlag, frame')
        /\ call'.tag = "UYVY" =>
              result' = CvtColorYUV(frame', "COLOR_YUV2BGR_UYVY")
        /\ call'.tag = "YUY2" =>
              result' = CvtColorYUV(frame', "COLOR_YUV2BGR_YUY2")]_vars

(***************************************************************************)
(* C7: the SEE3CAM_20CUG scaling (factor 255/1024, rounded, saturated)     *)
(* sends 0 to 0 and 1023 to 255, never decreases over 0..1023, and every   *)
(* output for a 16-bit input lies in 0..255.                               *)
(***************************************************************************)
C7_Scale20CUG ==
    (call.op = "convert_y16_to_rgb" /\ y16CameraFlag = SEE3CAM_20CUG)
        => /\ result.kind = "ndarray"
           /\ Len(result.data) = Len(frame.data)
           /\ \A k \in 1..Len(frame.data) :
                /\ result.data[k] \in 0..255
                /\ frame.data[k] = 0 => result.data[k] = 0
                /\ frame.data[k] = 1023 => result.data[k] = 255
           /\ \A i, j \in 1..Len(frame.data) :
                (frame.data[i] <= frame.data[j] /\ frame.data[j] <= 1023)
                    => result.data[i] <= result.data[j]

C7_Witness ==
    /\ call.op = "convert_y16_to_rgb"
    /\ y16CameraFlag = SEE3CAM_20CUG
    /\ frame.data = <<1022, 1023>>
    /\ result.data = <<255, 255>>

(***************************************************************************)
(* C8: only init_conversion changes the session.  An init sets the format  *)
(* tag to its tag, the camera variant (for tag Y16) to the one its device  *)
(* name gives, and the reusable buffer to a zeroed (height, width) array;  *)
(* every conversion step leaves the tag and the variant as they are and    *)
(* keeps the same buffer with the same dimensions, and only                *)
(* convert_y12_to_y8 changes the buffer's contents.  Hence after any       *)
(* conversions following an init all three are as that init left them.     *)
(***************************************************************************)
VariantOfName(device_name) ==
    IF Find(device_name, NAME_20CUG) >= 0 THEN SEE3CAM_20CUG
    ELSE IF Find(device_name, NAME_CU40) >= 0 THEN SEE3CAM_CU40
    ELSE OTHER_Y16CAMERAS

\* What an init_conversion step leaves behind.
InitEstablishes ==
    call'.op = "init_conversion" =>
        /\ format_type' = call'.tag
        /\ call'.tag = V4L2_PIX_FMT_Y16 => y16CameraFlag' = VariantOfName(call'.device)
        /\ y8_frame' = [alloc |-> TRUE, rows |-> call'.height, cols |-> call'.width,
                        data |-> [k \in 1..(call'.height * call'.width) |-> 0]]

\* What every other step keeps.
ConversionKeeps ==
    call'.op # "init_conversion" =>
        /\ format_type' = format_type
        /\ y16CameraFlag' = y16CameraFlag
        /\ ~y8_rebound'
        /\ y8_frame'.alloc = y8_frame.alloc
        /\ y8_frame'.rows = y8_frame.rows
        /\ y8_frame'.cols = y8_frame.cols
        /\ Len(y8_frame'.data) = Len(y8_frame.data)
        /\ y8_frame'.data # y8_frame.data =>
              \/ call'.op = "convert_y12_to_y8"
              \/ call'.op = "convert_frame" /\ call'.tag = V4L2_PIX_FMT_Y12

C8_SessionChangedOnlyByInit == [][InitEstablishes /\ ConversionKeeps]_vars

C8_Witness ==
    /\ format_type = V4L2_PIX_FMT_Y16
    /\ y16CameraFlag = SEE3CAM_CU40
    /\ call.op = "convert_y12_to_y8"
    /\ result.kind = "ndarray"
    /\ y8_frame = [alloc |-> TRUE, rows |-> 2, cols |-> 2, data |-> <<171, 205, 171, 205>>]

(***************************************************************************)
(* C9, as stated: the unpacker drops the middle byte of every triplet, the *)
(* output being the bytes b0 and b2 of the triplets in order.              *)
(***************************************************************************)
C9_DropsMiddleByte ==
    (/\ call.op = "convert_y12_to_y8"
     /\ FrameMatchesSession(frame))
        => /\ result.kind = "ndarray"
           /\ result.data = TripletBytes(frame.data, 0, 2)

(***************************************************************************)
(* C9, amended: the unpacker drops the third (last) byte of every triplet: *)
(* for a packed frame of the session's dimensions the output is the bytes  *)
(* b0 and b1 of the triplets in order.                                     *)
(***************************************************************************)
C9_DropsLastByte ==
    (/\ call.op = "convert_y12_to_y8"
     /\ FrameMatchesSession(frame))
        => /\ result.kind = "ndarray"
           /\ result.data = TripletBytes(frame.data, 0, 1)

C9_Witness ==
    /\ call.op = "convert_y12_to_y8"
    /\ FrameMatchesSession(frame)
    /\ frame.rows = 2
    /\ result.kind = "ndarray"
    /\ \E t \in 0..(Len(frame.data) \div 3 - 1) :
          /\ frame.data[3 * t + 2] # frame.data[3 * t + 3]
          /\ result.data[2 * t + 2] = frame.data[3 * t + 2]

(***************************************************************************)
(* C10: on a 16-bit grid with even row and column counts                   *)
(* convert_RGIR_to_RGGB completes; with S the scaled input, the buffer     *)
(* given to the Bayer demosaicing is S except at (i+1, j), i and j even,   *)
(* where it holds S[i][j+1], and the infrared grid is rows/2 x cols/2 with *)
(* IR[i/2][j/2] = S[i+1][j].                                               *)
(***************************************************************************)
C10_RGIRSplit ==
    (/\ call.op = "convert_RGIR_to_RGGB"
     /\ frame.rows % 2 = 0
     /\ frame.cols % 2 = 0)
        => LET S == ConvertScaleAbs(frame, 249023, 1000000).data
               at(i, j) == i * frame.cols + j + 1
           IN  /\ result.kind = "tuple"
               /\ result.via = "COLOR_BayerRG2BGR"
               /\ result.rows = frame.rows /\ result.cols = frame.cols
               /\ \A i \in 0..(frame.rows - 1), j \in 0..(frame.cols - 1) :
                    result.data[at(i, j)] =
                        IF i % 2 = 1 /\ j % 2 = 0 THEN S[at(i - 1, j + 1)] ELSE S[at(i, j)]
               /\ result.ir.rows = frame.rows \div 2
               /\ result.ir.cols = frame.cols \div 2
               /\ \A a \in 0..(frame.rows \div 2 - 1), b \in 0..(frame.cols \div 2 - 1) :
                    result.ir.data[a * (frame.cols \div 2) + b + 1] = S[at(2 * a + 1, 2 * b)]

====
